---------------------------- MODULE Spec2Model ----------------------------
(***************************************************************************)
(* A model of the Resource Store of atomic-data-ts: the subject-keyed      *)
(* cache (Store._resources), the subscriber table (Store.subscribers),     *)
(* the per-origin WebSocket table (Store.webSockets) and the asynchronous  *)
(* operations that suspend on a fetch (fetchResourceFromServer,            *)
(* getResourceAsync, renameSubject).                                       *)
(*                                                                         *)
(* Resources are JavaScript objects: the cache maps a subject to a         *)
(* reference.  The model keeps a heap of objects so that in-place          *)
(* mutation (found.loading = true, old.setSubject(new)) and clone() are    *)
(* modelled as the code performs them.  After every step unreferenced     *)
(* objects are collected and the references are renumbered in the order    *)
(* the state reaches them, so a reference means something inside one       *)
(* state only; what a step needs to know about identity across states is   *)
(* kept in three history fields of every object:                           *)
(*   fresh    - the object was created by the latest step                  *)
(*   preAdd   - the object was cached under its subject when addResource   *)
(*              was called with another object for that subject            *)
(*   superseded - and the overwrite rule gives way to that other object:   *)
(*              it is complete, or this object was loading                 *)
(***************************************************************************)
EXTENDS Integers, Sequences, FiniteSets, TLC

VARIABLES
    resources,    \* Store._resources : subject -> object reference
    heap,         \* the Resource objects, by reference
    subscribers,  \* Store.subscribers : subject -> sequence of callbacks
    webSockets,   \* Store.webSockets : origin -> readyState of the socket
    fetches,      \* fetchResourceFromServer calls suspended on their await
    out,          \* what the latest step did to the outside: callbacks
                  \* invoked, events emitted, WebSocket messages sent
    last,         \* the latest operation, its arguments and its result
    sentBy,       \* history: SUBSCRIBE messages sent by subscribe(), per subject
    closedSub,    \* history: subjects subscribed while the channel was not open
    agent,        \* Store.agent
    serverUrl,    \* Store.serverUrl
    handlers,     \* the handlers registered for StoreEvents.Error, in order
    throwers,     \* the subscribe() callbacks that throw when they are called
    net           \* the latest call of the HTTP client: requests, result

\* the store's tables, as the operations on the cache see them
storeVars == << resources, heap, subscribers, webSockets, fetches, out, last,
                sentBy, closedSub >>
\* the agent, the server, the event handlers and the HTTP client
outerVars == << agent, serverUrl, handlers, throwers, net >>

vars == << resources, heap, subscribers, webSockets, fetches, out, last,
           sentBy, closedSub, agent, serverUrl, handlers, throwers, net >>

---------------------------------------------------------------------------
(* Bounds of the model *)

\* number of fetchResourceFromServer calls in flight at the same time
MaxFetches == 1
\* length of a subject's callback array
MaxCallbacks == 2
\* the counter of SUBSCRIBE messages stops counting here
MaxSent == 3
\* number of fetches in flight once setAgent has started its re-fetches
MaxAgentFetches == 2
\* number of fetches in flight where getResourceLoading is looked at alone
MaxGetFetches == 2

---------------------------------------------------------------------------
(* Values *)

SubjectSeq == << "a", "b" >>
Subjects == {SubjectSeq[i] : i \in DOMAIN SubjectSeq}
unknownSubject == "unknown-subject"
\* a subject that is not a URL
malformedSubject == "not a url"
\* the subject nobody passed: the JavaScript value undefined
undefinedSubject == "undefined"
\* tryValidURL(subject) does not throw: new URL(subject) succeeds
SubjectIsUrl(s) == s # malformedSubject
\* every key the cache can have, in the order the objects are numbered
KeySeq == SubjectSeq \o << malformedSubject >>
Callbacks == {"cb1", "cb2"}
Vals == {"p", "q"}

\* new URL(subject).origin : both subjects live on the same server
OriginOf(s) == "origin1"

\* A reference is an index of the heap; the undefined reference
None == 0

\* WebSocket.readyState
CONNECTING == "connecting"
OPEN == "open"
CLOSED == "closed"

\* typeof window !== 'undefined' : the store runs in a browser
hasWindow == TRUE
\* typeof WebSocket !== 'undefined'
supportsWebSockets == TRUE

\* new Resource(subject)
NewResource(s) == [subject |-> s, loading |-> FALSE, incomplete |-> FALSE,
                   error |-> FALSE, unauthorized |-> FALSE, val |-> "",
                   fresh |-> TRUE, preAdd |-> FALSE, superseded |-> FALSE]

\* what a Resource holds, without the history fields
Content(r) == [subject |-> r.subject, loading |-> r.loading,
               incomplete |-> r.incomplete, error |-> r.error,
               unauthorized |-> r.unauthorized, val |-> r.val]

\* Resource.clone()
Clone(r) == [NewResource(r.subject) EXCEPT !.loading = r.loading,
               !.incomplete = r.incomplete, !.error = r.error,
               !.unauthorized = r.unauthorized, !.val = r.val]

\* Resource.isReady()
isReady(r) == ~r.loading /\ ~r.error

NoOut == [calls |-> << >>, events |-> << >>, msgs |-> << >>,
          cookies |-> << >>]

\* the record of an operation: its name, its arguments (subject, other),
\* the object it was about, the object it returned, whether it raised, a
\* count (n): the callbacks unsubscribe removed, the resources addResource
\* found cached under the subject, and the options it was called with
Last(op, s, other, obj, ret, raised) ==
    [op |-> op, subject |-> s, other |-> other, obj |-> obj, ret |-> ret,
     raised |-> raised, n |-> 0, opts |-> {}]

\* the options of a call that are set
OptsSet(allowIncomplete, noWebSocket, newResource, fromProxy, setLoading) ==
    {o \in {"allowIncomplete", "noWebSocket", "newResource", "fromProxy",
            "setLoading"} :
        \/ o = "allowIncomplete" /\ allowIncomplete
        \/ o = "noWebSocket" /\ noWebSocket
        \/ o = "newResource" /\ newResource
        \/ o = "fromProxy" /\ fromProxy
        \/ o = "setLoading" /\ setLoading}

NoFetchOwner == [kind |-> "none", old |-> "", oldObj |-> None]

\* no agent: Store.agent is undefined
NoAgent == "undefined"
\* no call of the HTTP client yet
NoNet == [op |-> "none", requests |-> << >>, rejected |-> FALSE,
          result |-> << >>, outcome |-> "none", store |-> FALSE]

---------------------------------------------------------------------------
(* The heap *)

\* the reference a `new` gets
Fresh(h) == Len(h) + 1

\* the heap with object r created
Alloc(h, r) == Append(h, r)

RECURSIVE Dedup(_, _)
Dedup(q, seen) ==
    IF q = << >> THEN << >>
    ELSE IF Head(q) = None \/ Head(q) \in seen THEN Dedup(Tail(q), seen)
    ELSE << Head(q) >> \o Dedup(Tail(q), seen \cup {Head(q)})

\* the objects the program's state refers to, in the order it reaches them
RootSeq(res, fs, o, l) ==
    Dedup( [i \in DOMAIN KeySeq |->
               IF KeySeq[i] \in DOMAIN res THEN res[KeySeq[i]] ELSE None]
           \o [i \in DOMAIN fs |-> fs[i].owner.oldObj]
           \o << l.obj, l.ret >>
           \o [i \in DOMAIN o.calls |-> o.calls[i].obj]
           \o [i \in DOMAIN o.events |-> o.events[i].obj],
           {} )

\* the reference of object x once the objects are numbered as in roots
Ren(roots, x) ==
    IF x = None THEN None ELSE CHOOSE i \in DOMAIN roots : roots[i] = x

\* the objects a handler starts from: none of them is new.  SubSeq makes
\* the heap a sequence proper, which EXCEPT and Append then work on
Aged(h) == SubSeq([i \in DOMAIN h |-> [h[i] EXCEPT !.fresh = FALSE]],
                  1, Len(h))

---------------------------------------------------------------------------
(* Store.notify and Store.addResource, as functions of the store's state.  *)
(* st = [res, heap, calls] is threaded through a handler.                  *)

St(res, h, calls) == [res |-> res, heap |-> h, calls |-> calls]

\* the state a handler starts from
Cur == St(resources, Aged(heap), << >>)

\* the callbacks of arr up to and including the first one that throws
RECURSIVE UpToThrow(_)
UpToThrow(arr) ==
    IF arr = << >> THEN << >>
    ELSE IF Head(arr) \in throwers THEN << Head(arr) >>
    ELSE << Head(arr) >> \o UpToThrow(Tail(arr))

\* callbacks.map(async cb => cb(resource)): the callbacks that get called.
\* A callback that throws does so inside an async function, which turns the
\* throw into a rejected promise, and map goes on to the next callback
InvokedMutSync(arr) == UpToThrow(arr)
Invoked(arr) == arr

\* what of the callbacks' throws reaches the caller of notify: notify is an
\* async function, and Promise.allSettled takes the rejected promises
Escapes(calls) == FALSE

\* Store.notify(resource): every callback registered for the subject is
\* called, in order, with the object passed in
NotifyCalls(subs, s, obj) ==
    IF s \notin DOMAIN subs THEN << >>
    ELSE LET arr == Invoked(subs[s])
         IN  [i \in 1 .. Len(arr) |->
                [cb |-> arr[i], obj |-> obj, threw |-> arr[i] \in throwers]]

\* the calls, each with the subjects the callback finds in the cache
Seeing(calls, res) ==
    [i \in DOMAIN calls |-> calls[i] @@ [seen |-> DOMAIN res]]

\* the object addResource hands to notify: resource.clone(), not resource
NotifyArgMutSame(o, c) == o
NotifyArg(o, c) == c

\* addResource's early return: an incomplete resource does not replace a
\* cached resource that is not loading
SkipAddMutNever(res, h, o) == FALSE
SkipAddMutAbsent(res, h, o) == h[o].subject \notin DOMAIN res
SkipAddMutLoading(res, h, o) ==
    LET s == h[o].subject IN s \in DOMAIN res /\ h[res[s]].loading
SkipAddMutAnyExisting(res, h, o) ==
    LET s == h[o].subject IN s \in DOMAIN res /\ ~h[res[s]].loading
SkipAdd(res, h, o) ==
    LET s == h[o].subject IN
    h[o].incomplete /\ s \in DOMAIN res /\ ~h[res[s]].loading

\* history: addResource(o) finds another object cached under o's subject
MarkPrev(h, res, o) ==
    LET s == h[o].subject IN
    IF s \in DOMAIN res /\ res[s] # o
    THEN [h EXCEPT ![res[s]].preAdd = TRUE,
                   ![res[s]].superseded = ~h[o].incomplete \/ h[res[s]].loading,
                   ![o].preAdd = FALSE, ![o].superseded = FALSE]
    ELSE h

\* Store.addResource(resource), resource being the object o
AddResourceSt(st, subs, o) ==
    LET s == st.heap[o].subject
    IN  IF SkipAdd(st.res, st.heap, o)
        THEN [st EXCEPT !.heap = MarkPrev(st.heap, st.res, o)]
        ELSE LET c  == Fresh(st.heap)   \* resource.clone()
                 h1 == MarkPrev(st.heap, st.res, o)
                 r1 == (s :> o) @@ st.res
             IN  [res   |-> r1,
                  heap  |-> Alloc(h1, Clone(h1[o])),
                  calls |-> st.calls
                            \o Seeing(NotifyCalls(subs, s, NotifyArg(o, c)), r1)]

\* Store.addResources(...resources)
AddResourcesStMutFirst(st, subs, os) ==
    IF os = << >> THEN st ELSE AddResourceSt(st, subs, Head(os))
RECURSIVE AddResourcesSt(_, _, _)
AddResourcesSt(st, subs, os) ==
    IF os = << >> THEN st
    ELSE AddResourcesSt(AddResourceSt(st, subs, Head(os)), subs, Tail(os))

---------------------------------------------------------------------------
Init ==
    /\ resources = << >>
    /\ heap = << >>
    /\ subscribers = << >>
    /\ webSockets = << >>
    /\ fetches = << >>
    /\ out = NoOut
    /\ last = Last("new", "", "", None, None, FALSE)
    /\ sentBy = [s \in Subjects |-> 0]
    /\ closedSub = {}
    /\ agent = NoAgent
    /\ serverUrl = "undefined"
    /\ handlers = << >>
    /\ throwers = {}
    /\ net = NoNet

\* the end of every handler: unreferenced objects are collected and the
\* references renumbered
FinishStore(res, h, fs, o, l) ==
    LET roots == RootSeq(res, fs, o, l)
    IN  /\ resources' = [s \in DOMAIN res |-> Ren(roots, res[s])]
        /\ heap' = [i \in DOMAIN roots |-> h[roots[i]]]
        /\ fetches' = [i \in DOMAIN fs |->
                         [fs[i] EXCEPT !.owner.oldObj = Ren(roots, @)]]
        /\ out' = [calls  |-> [i \in DOMAIN o.calls |->
                                 [o.calls[i] EXCEPT !.obj = Ren(roots, @)]],
                   events |-> [i \in DOMAIN o.events |->
                                 [o.events[i] EXCEPT !.obj = Ren(roots, @)]],
                   msgs   |-> o.msgs,
                   cookies |-> o.cookies]
        /\ last' = [l EXCEPT !.obj = Ren(roots, @), !.ret = Ren(roots, @)]

\* the end of a handler that touches neither the agent, the server URL, the
\* event handlers nor the HTTP client
Finish(res, h, fs, o, l) ==
    /\ FinishStore(res, h, fs, o, l)
    /\ UNCHANGED outerVars

---------------------------------------------------------------------------
(* Store.addResource called by a user of the store with a resource that    *)
(* was parsed or built elsewhere                                           *)
AddResource(s, inc, v) ==
    /\ LET o  == Fresh(Cur.heap)
           h1 == Alloc(Cur.heap, [NewResource(s) EXCEPT
                                    !.incomplete = inc, !.val = v])
           st == AddResourceSt(St(resources, h1, << >>), subscribers, o)
       IN  /\ Finish(st.res, st.heap, fetches,
                     [NoOut EXCEPT !.calls = st.calls],
                     [Last("addResource", s, "", o, None, Escapes(st.calls)) EXCEPT
                        !.n = IF s \in DOMAIN resources THEN 1 ELSE 0])
           /\ UNCHANGED << subscribers, webSockets, sentBy, closedSub >>

(* Store.removeResource(subject) *)
RemoveEmitsMutAlways(res, s) == TRUE
RemoveEmitsMutNever(res, s) == FALSE
RemoveEmits(res, s) == s \in DOMAIN res

RemoveResourceSt(res, s) ==
    [res    |-> [t \in DOMAIN res \ {s} |-> res[t]],
     events |-> IF RemoveEmits(res, s)
                THEN << [event |-> "resource-removed",
                         obj |-> IF s \in DOMAIN res THEN res[s] ELSE None] >>
                ELSE << >>]

RemoveResource(s) ==
    LET r == RemoveResourceSt(resources, s)
    IN  /\ Finish(r.res, Cur.heap, fetches,
                  [NoOut EXCEPT !.events = r.events],
                  Last("removeResource", s, "",
                       IF s \in DOMAIN resources THEN resources[s] ELSE None,
                       None, FALSE))
        /\ UNCHANGED << subscribers, webSockets, sentBy, closedSub >>

---------------------------------------------------------------------------
(* The WebSocket table *)

\* Store.getWebSocketForSubject(subject): the socket found, and the table,
\* to which a socket is added when none was found
GetWebSocketForSubjectMutNoStart(ws, s) ==
    LET o == OriginOf(s)
    IN  [found |-> IF o \in DOMAIN ws THEN ws[o] ELSE "undefined", ws |-> ws]
GetWebSocketForSubject(ws, s) ==
    LET o == OriginOf(s)
    IN  IF o \in DOMAIN ws
        THEN [found |-> ws[o], ws |-> ws]
        ELSE [found |-> "undefined",
              ws |-> IF hasWindow THEN (o :> CONNECTING) @@ ws ELSE ws]

\* what of a throw inside subscribeWebSocket's try block reaches its caller:
\* the catch logs the error and the function returns
EscapesTryMutAll(threw) == threw
EscapesTry(threw) == FALSE

\* Store.subscribeWebSocket(subject), with ws.send throwing or not.  For a
\* subject that is no URL, new URL(subject) throws in getWebSocketForSubject
SubscribeWebSocketSt(ws, s, sendThrows) ==
    IF s = unknownSubject THEN [ws |-> ws, msgs |-> << >>, raised |-> FALSE]
    ELSE IF ~SubjectIsUrl(s)
    THEN [ws |-> ws, msgs |-> << >>, raised |-> EscapesTry(TRUE)]
    ELSE LET g == GetWebSocketForSubject(ws, s)
         IN  [ws |-> g.ws,
              msgs |-> IF g.found = OPEN /\ ~sendThrows
                       THEN << [type |-> "SUBSCRIBE", subject |-> s] >>
                       ELSE << >>,
              raised |-> EscapesTry(g.found = OPEN /\ sendThrows)]

\* Store.subscribeWebSocket(subject) on a socket whose send works
SubscribeWebSocket(ws, s) == SubscribeWebSocketSt(ws, s, FALSE)

\* subscribe's test for "no callback array yet"
FirstSubscribeMutEmpty(subs, s) == s \notin DOMAIN subs \/ subs[s] = << >>
FirstSubscribeMutAlways(subs, s) == TRUE
FirstSubscribe(subs, s) == s \notin DOMAIN subs

\* the channel of a subject's origin is open
ChannelOpenFor(ws, s) == OriginOf(s) \in DOMAIN ws /\ ws[OriginOf(s)] = OPEN

Min(x, y) == IF x <= y THEN x ELSE y

(* Store.subscribe(subject, callback), with ws.send throwing or not *)
SubscribeSending(s, cb, sendThrows) ==
    IF s = undefinedSubject
    THEN /\ Finish(resources, Cur.heap, fetches, NoOut,
                   Last("subscribe", s, cb, None, None, TRUE))
         /\ UNCHANGED << subscribers, webSockets, sentBy, closedSub >>
    ELSE
    /\ s \in DOMAIN subscribers => Len(subscribers[s]) < MaxCallbacks
    /\ LET first == FirstSubscribe(subscribers, s)
           w     == IF first THEN SubscribeWebSocketSt(webSockets, s, sendThrows)
                    ELSE [ws |-> webSockets, msgs |-> << >>, raised |-> FALSE]
           arr   == IF s \in DOMAIN subscribers THEN subscribers[s] ELSE << >>
       IN  /\ subscribers' = IF w.raised THEN subscribers
                             ELSE (s :> Append(arr, cb)) @@ subscribers
           /\ webSockets' = w.ws
           /\ sentBy' = IF s \in Subjects
                        THEN [sentBy EXCEPT ![s] = Min(@ + Len(w.msgs), MaxSent)]
                        ELSE sentBy
           /\ closedSub' = IF s \notin Subjects \/ ChannelOpenFor(webSockets, s)
                           THEN closedSub
                           ELSE closedSub \cup {s}
           /\ Finish(resources, Cur.heap, fetches,
                     [NoOut EXCEPT !.msgs = w.msgs],
                     Last("subscribe", s, cb, None, None, w.raised))

(* Store.subscribe(subject, callback) on a socket whose send works *)
Subscribe(s, cb) == SubscribeSending(s, cb, FALSE)

\* callbackArray.filter(item => item !== callback)
FilterOut(arr, cb) == SelectSeq(arr, LAMBDA item : item # cb)

(* Store.unsubscribe(subject, callback) *)
Unsubscribe(s, cb) ==
    /\ subscribers' = IF s \in DOMAIN subscribers
                      THEN [subscribers EXCEPT ![s] = FilterOut(@, cb)]
                      ELSE subscribers
    /\ Finish(resources, Cur.heap, fetches, NoOut,
              [Last("unsubscribe", s, cb, None, None, FALSE) EXCEPT
                 !.n = IF s \in DOMAIN subscribers
                       THEN Len(subscribers[s]) - Len(FilterOut(subscribers[s], cb))
                       ELSE 0])
    /\ UNCHANGED << webSockets, sentBy, closedSub >>

\* the socket's open handler: SUBSCRIBE is sent again for every subject of
\* that origin with a callback registered
ResubscribeMsgs(subs, o) ==
    LET all == [i \in DOMAIN SubjectSeq |->
                  [type |-> "SUBSCRIBE", subject |-> SubjectSeq[i]]]
    IN  SelectSeq(all, LAMBDA m : /\ OriginOf(m.subject) = o
                                  /\ m.subject \in DOMAIN subs
                                  /\ subs[m.subject] # << >>)

(* the socket of origin o finishes its handshake *)
ChannelOpens(o) ==
    /\ o \in DOMAIN webSockets /\ webSockets[o] = CONNECTING
    /\ webSockets' = [webSockets EXCEPT ![o] = OPEN]
    /\ Finish(resources, Cur.heap, fetches,
              [NoOut EXCEPT !.msgs = ResubscribeMsgs(subscribers, o)],
              Last("ws-open", o, "", None, None, FALSE))
    /\ UNCHANGED << subscribers, sentBy, closedSub >>

(* the socket of origin o is closed by the transport *)
ChannelCloses(o) ==
    /\ o \in DOMAIN webSockets /\ webSockets[o] \in {CONNECTING, OPEN}
    /\ webSockets' = [webSockets EXCEPT ![o] = CLOSED]
    /\ Finish(resources, Cur.heap, fetches, NoOut,
              Last("ws-close", o, "", None, None, FALSE))
    /\ UNCHANGED << subscribers, sentBy, closedSub >>

(* the closed socket of origin o connects again *)
ChannelReconnects(o) ==
    /\ o \in DOMAIN webSockets /\ webSockets[o] = CLOSED
    /\ webSockets' = [webSockets EXCEPT ![o] = CONNECTING]
    /\ Finish(resources, Cur.heap, fetches, NoOut,
              Last("ws-reconnect", o, "", None, None, FALSE))
    /\ UNCHANGED << subscribers, sentBy, closedSub >>

---------------------------------------------------------------------------
(* Fetching *)

\* the transport fetchResourceFromServer chooses
FetchViaMutOpenWins(fromProxy, noWebSocket, found) ==
    IF ~noWebSocket /\ supportsWebSockets /\ found = OPEN
    THEN "ws"
    ELSE IF fromProxy THEN "proxy" ELSE "http"
FetchVia(fromProxy, noWebSocket, found) ==
    IF ~fromProxy /\ ~noWebSocket /\ supportsWebSockets /\ found = OPEN
    THEN "ws"
    ELSE IF fromProxy THEN "proxy" ELSE "http"

\* Store.fetchResourceFromServer(subject, opts) up to its await.
\* x = [st, ws, fs, msgs] is the state of the handler that calls it.
StartFetch(x, subs, s, fromProxy, setLoading, noWebSocket, owner) ==
    LET st1 == IF setLoading
               THEN AddResourcesSt(
                        [x.st EXCEPT !.heap = Alloc(@, [NewResource(s) EXCEPT
                                                          !.loading = TRUE])],
                        subs, << Fresh(x.st.heap) >>)
               ELSE x.st
        g   == GetWebSocketForSubject(x.ws, s)
        via == FetchVia(fromProxy, noWebSocket, g.found)
    IN  [st   |-> st1,
         ws   |-> g.ws,
         fs   |-> Append(x.fs, [subject |-> s, via |-> via, owner |-> owner]),
         msgs |-> x.msgs \o (IF via = "ws"
                             THEN << [type |-> "GET", subject |-> s] >>
                             ELSE << >>)]

\* the state of a handler that has not called anything yet
Handler == [st |-> Cur, ws |-> webSockets, fs |-> fetches, msgs |-> << >>]

\* a handler that starts a fetch needs a free place among the fetches in flight
CanFetch == Len(fetches) < MaxFetches

(* Store.fetchResourceFromServer called by a user of the store *)
FetchResourceFromServer(s, fromProxy, setLoading, noWebSocket) ==
    /\ CanFetch
    /\ LET x == StartFetch(Handler, subscribers, s, fromProxy, setLoading,
                           noWebSocket, NoFetchOwner)
       IN  /\ webSockets' = x.ws
           /\ Finish(x.st.res, x.st.heap, x.fs,
                     [NoOut EXCEPT !.calls = x.st.calls, !.msgs = x.msgs],
                     [Last("fetchResourceFromServer", s, "", None, None, FALSE)
                        EXCEPT !.opts = OptsSet(FALSE, noWebSocket, FALSE,
                                                fromProxy, setLoading)])
           /\ UNCHANGED << subscribers, sentBy, closedSub >>

\* getResourceLoading's test for fetching a cached resource again
RefetchMutAlways(allowIncomplete, r) == ~r.loading /\ r.incomplete
RefetchMutLoading(allowIncomplete, r) == ~allowIncomplete /\ r.incomplete
Refetch(allowIncomplete, r) == ~allowIncomplete /\ ~r.loading /\ r.incomplete

\* the record of a getResourceLoading call that returns ret
Got(s, ret, allowIncomplete, noWebSocket, newResource) ==
    [Last("getResourceLoading", s, "", None, ret, FALSE) EXCEPT
       !.opts = OptsSet(allowIncomplete, noWebSocket, newResource, FALSE, FALSE)]

(* Store.getResourceLoading(subject, opts), at most max fetches being in *)
(* flight when it returns                                               *)
GetResourceLoadingWithin(max, s, allowIncomplete, noWebSocket, newResource) ==
    IF s = unknownSubject
    THEN /\ Finish(resources, Alloc(Cur.heap, NewResource(unknownSubject)),
                   fetches, NoOut,
                   Got(s, Fresh(Cur.heap), allowIncomplete, noWebSocket, newResource))
         /\ UNCHANGED << subscribers, webSockets, sentBy, closedSub >>
    ELSE IF s \notin DOMAIN resources
    THEN LET newR == Fresh(Cur.heap)
             st1  == AddResourcesSt(
                         [Cur EXCEPT !.heap = Alloc(@, [NewResource(s) EXCEPT
                                                          !.loading = TRUE])],
                         subscribers, << newR >>)
             x0   == [Handler EXCEPT !.st = st1]
             x    == IF newResource THEN x0
                     ELSE StartFetch(x0, subscribers, s, FALSE, FALSE,
                                     noWebSocket, NoFetchOwner)
         IN  /\ newResource \/ Len(fetches) < max
             /\ webSockets' = x.ws
             /\ Finish(x.st.res, x.st.heap, x.fs,
                       [NoOut EXCEPT !.calls = x.st.calls, !.msgs = x.msgs],
                       Got(s, newR, allowIncomplete, noWebSocket, newResource))
             /\ UNCHANGED << subscribers, sentBy, closedSub >>
    ELSE LET found == resources[s]
         IN  IF Refetch(allowIncomplete, Cur.heap[found])
             THEN LET st1 == AddResourcesSt(
                                 [Cur EXCEPT !.heap[found].loading = TRUE],
                                 subscribers, << found >>)
                      x   == StartFetch([Handler EXCEPT !.st = st1], subscribers,
                                        s, FALSE, FALSE, noWebSocket, NoFetchOwner)
                  IN  /\ Len(fetches) < max
                      /\ webSockets' = x.ws
                      /\ Finish(x.st.res, x.st.heap, x.fs,
                                [NoOut EXCEPT !.calls = x.st.calls,
                                              !.msgs = x.msgs],
                                Got(s, found, allowIncomplete, noWebSocket, newResource))
                      /\ UNCHANGED << subscribers, sentBy, closedSub >>
             ELSE /\ Finish(resources, Cur.heap, fetches, NoOut,
                            Got(s, found, allowIncomplete, noWebSocket, newResource))
                  /\ UNCHANGED << subscribers, webSockets, sentBy, closedSub >>

(* Store.getResourceLoading(subject, opts) *)
GetResourceLoading(s, allowIncomplete, noWebSocket, newResource) ==
    GetResourceLoadingWithin(MaxFetches, s, allowIncomplete, noWebSocket,
                             newResource)

\* getResourceAsync's test for answering from the cache
AnswerFromCache(res, h, s) == s \in DOMAIN res

(* Store.getResourceAsync(subject) *)
GetResourceAsync(s) ==
    IF AnswerFromCache(resources, heap, s)
    THEN /\ Finish(resources, Cur.heap, fetches, NoOut,
                   Last("getResourceAsync", s, "", None, resources[s], FALSE))
         /\ UNCHANGED << subscribers, webSockets, sentBy, closedSub >>
    ELSE /\ CanFetch
         /\ LET x == StartFetch(Handler, subscribers, s, FALSE, FALSE, FALSE,
                                [NoFetchOwner EXCEPT !.kind = "getResourceAsync"])
            IN  /\ webSockets' = x.ws
                /\ Finish(x.st.res, x.st.heap, x.fs,
                          [NoOut EXCEPT !.calls = x.st.calls, !.msgs = x.msgs],
                          Last("await", s, "", None, None, FALSE))
                /\ UNCHANGED << subscribers, sentBy, closedSub >>

---------------------------------------------------------------------------
(* Renaming *)

\* renameSubject after its await, the new subject being free:
\* old.setSubject(newSubject); resources.set(newSubject, old);
\* removeResource(oldSubject)
DoRename(st, oldSubject, old, newSubject) ==
    LET h1 == [st.heap EXCEPT ![old].subject = newSubject,
                              ![old].preAdd = FALSE, ![old].superseded = FALSE]
        r  == RemoveResourceSt((newSubject :> old) @@ st.res, oldSubject)
    IN  [st |-> [st EXCEPT !.res = r.res, !.heap = h1], events |-> r.events]

\* Store.checkSubjectTaken once getResourceAsync has answered with r
SubjectTaken(r) == isReady(r)

\* renameSubject from the answer of checkSubjectTaken on
RenameAfterCheckMutEarly(st, oldSubject, old, newSubject) ==
    IF SubjectTaken(st.heap[st.res[newSubject]])
    THEN [st |-> [st EXCEPT !.heap[old].subject = newSubject],
          events |-> << >>, raised |-> TRUE]
    ELSE [raised |-> FALSE] @@ DoRename(st, oldSubject, old, newSubject)
RenameAfterCheck(st, oldSubject, old, newSubject) ==
    IF SubjectTaken(st.heap[st.res[newSubject]])
    THEN [st |-> st, events |-> << >>, raised |-> TRUE]
    ELSE [raised |-> FALSE] @@ DoRename(st, oldSubject, old, newSubject)

(* Store.renameSubject(oldSubject, newSubject) *)
RenameSubject(oldSubject, newSubject) ==
    IF oldSubject \notin DOMAIN resources
    THEN /\ Finish(resources, Cur.heap, fetches, NoOut,
                   Last("renameSubject", oldSubject, newSubject, None, None, TRUE))
         /\ UNCHANGED << subscribers, webSockets, sentBy, closedSub >>
    ELSE LET old == resources[oldSubject]
         IN  IF AnswerFromCache(resources, heap, newSubject)
             THEN LET r == RenameAfterCheck(Cur, oldSubject, old, newSubject)
                  IN  /\ Finish(r.st.res, r.st.heap, fetches,
                                [NoOut EXCEPT !.events = r.events],
                                Last("renameSubject", oldSubject, newSubject,
                                     old, None, r.raised))
                      /\ UNCHANGED << subscribers, webSockets, sentBy, closedSub >>
             ELSE /\ CanFetch
                  /\ LET x == StartFetch(Handler, subscribers, newSubject,
                                         FALSE, FALSE, FALSE,
                                         [kind |-> "renameSubject",
                                          old |-> oldSubject, oldObj |-> old])
                     IN  /\ webSockets' = x.ws
                         /\ Finish(x.st.res, x.st.heap, x.fs,
                                   [NoOut EXCEPT !.calls = x.st.calls,
                                                 !.msgs = x.msgs],
                                   Last("await", oldSubject, newSubject, None,
                                        None, FALSE))
                         /\ UNCHANGED << subscribers, sentBy, closedSub >>

---------------------------------------------------------------------------
(* The answer to a fetch *)

\* what the server can answer: an error, or the resource, alone or with a
\* resource of another subject embedded in it
Responses(vals, children) ==
    { [error |-> TRUE, unauthorized |-> FALSE, val |-> "", child |-> "none"] }
    \cup [error : {FALSE}, unauthorized : {FALSE}, val : vals,
          child : {"none"} \cup children]

\* the server refuses the resource to the agent that asks for it
Unauthorized ==
    [error |-> TRUE, unauthorized |-> TRUE, val |-> "", child |-> "none"]

\* the resources parsed from the answer to the fetch of subject s, created
\* on heap h: the resource itself, then the embedded one
Created(h, s, resp, t) ==
    LET primary == [NewResource(s) EXCEPT !.error = resp.error,
                       !.unauthorized = resp.unauthorized, !.val = resp.val]
        child   == [NewResource(t) EXCEPT !.val = resp.val,
                       !.incomplete = (resp.child = "incomplete")]
    IN  IF resp.child = "none"
        THEN [heap |-> Alloc(h, primary), objs |-> << Fresh(h) >>]
        ELSE [heap |-> Alloc(Alloc(h, primary), child),
              objs |-> << Fresh(h), Fresh(h) + 1 >>]

RemoveAt(q, i) == [j \in 1 .. Len(q) - 1 |-> IF j < i THEN q[j] ELSE q[j + 1]]

(* the fetch fetches[i] is answered: fetchResourceFromServer goes on after  *)
(* its await, and so does the operation that awaits it                     *)
FetchDone(i, resp, t) ==
    LET f   == fetches[i]
        s   == f.subject
        c   == Created(Cur.heap, s, resp, t)
        st1 == AddResourcesSt([Cur EXCEPT !.heap = c.heap], subscribers, c.objs)
        fs1 == RemoveAt(fetches, i)
        ret == IF s \in DOMAIN st1.res THEN st1.res[s] ELSE None
    IN  /\ t # s
        /\ f.via = "ws" /\ ~ChannelOpenFor(webSockets, s) => resp.error
        /\ UNCHANGED << subscribers, webSockets, sentBy, closedSub >>
        /\ IF f.owner.kind = "renameSubject"
           THEN LET r == RenameAfterCheck(st1, f.owner.old, f.owner.oldObj, s)
                IN  Finish(r.st.res, r.st.heap, fs1,
                           [NoOut EXCEPT !.calls = r.st.calls,
                                         !.events = r.events],
                           Last("renameSubject", f.owner.old, s, f.owner.oldObj,
                                None, r.raised))
           ELSE Finish(st1.res, st1.heap, fs1,
                       [NoOut EXCEPT !.calls = st1.calls],
                       [Last(IF f.owner.kind = "none"
                             THEN "fetched" ELSE f.owner.kind,
                             s, IF resp.child = "none" THEN "" ELSE t,
                             c.objs[1], ret, FALSE) EXCEPT
                          !.n = IF s \in DOMAIN resources THEN 1 ELSE 0])

---------------------------------------------------------------------------
(* The server URL and the agent *)

\* the URLs given to setServerUrl and openWebSocket, and their text, cut in
\* pieces where the model has to look inside
ServerUrls == {"origin1", "origin1/", "origin2", "no url"}
UrlText(u) == IF u = "origin1/" THEN << "origin1", "/" >> ELSE << u >>

\* Client.tryValidSubject(url) does not throw
ValidUrl(u) == u \in {"origin1", "origin1/", "origin2"}

\* new URL(url).origin of a valid URL
UrlOrigin(u) == IF u = "origin1/" THEN "origin1" ELSE u

\* String.prototype.substring(start): a negative start counts as 0
Substring(text, start) ==
    SubSeq(text, (IF start < 0 THEN 0 ELSE start) + 1, Len(text))

\* setServerUrl's test for a trailing slash: url.substring(-1) === '/'
TrailingSlash(u) == Substring(UrlText(u), -1) = << "/" >>

\* Store.openWebSocket(url) on the channel table
OpenWebSocketTable(ws, u) ==
    IF supportsWebSockets /\ u \notin DOMAIN ws
    THEN (u :> CONNECTING) @@ ws
    ELSE ws

(* Store.openWebSocket(url) *)
OpenWebSocket(u) ==
    /\ webSockets' = OpenWebSocketTable(webSockets, u)
    /\ FinishStore(resources, Cur.heap, fetches, NoOut,
                   Last("openWebSocket", u, "", None, None, FALSE))
    /\ UNCHANGED << subscribers, sentBy, closedSub >>
    /\ UNCHANGED outerVars

(* Store.setServerUrl(url) *)
SetServerUrl(u) ==
    LET raised == ~ValidUrl(u) \/ TrailingSlash(u)
    IN  /\ serverUrl' = IF raised THEN serverUrl ELSE u
        /\ webSockets' = IF raised \/ ~supportsWebSockets THEN webSockets
                         ELSE OpenWebSocketTable(webSockets, u)
        /\ FinishStore(resources, Cur.heap, fetches, NoOut,
                       Last("setServerUrl", u, "", None, None, raised))
        /\ UNCHANGED << subscribers, sentBy, closedSub >>
        /\ UNCHANGED << agent, handlers, throwers, net >>

Agents == {"agentX", "agentY"}

\* the order in which the channel table and the cache are walked
ChannelSeq == << "origin1", "origin1/", "origin2" >>

\* Resource.isUnauthorized()
isUnauthorized(r) == r.error /\ r.unauthorized

\* setAgent's test for authenticating on a channel: ws.readyState === ws.OPEN
AuthenticatesOnMutAny(ws, k) == TRUE
AuthenticatesOn(ws, k) == ws[k] = OPEN

\* authenticate(ws, store): the message that carries the agent's credentials
AuthMsg(k, x) == [type |-> "AUTHENTICATE", subject |-> x, channel |-> k]

AgentChangedEvent(x) == [event |-> "agent-changed", obj |-> None, agent |-> x]

\* the subjects (getSubject()) of the cached resources marked unauthorized
UnauthorizedSeq(res, h) ==
    LET cached == SelectSeq(SubjectSeq, LAMBDA s : s \in DOMAIN res)
        marked == SelectSeq(cached, LAMBDA s : isUnauthorized(h[res[s]]))
    IN  [i \in DOMAIN marked |-> h[res[marked[i]]].subject]

\* this.fetchResourceFromServer(subject) for every subject of ss, in order
RECURSIVE StartFetches(_, _, _)
StartFetches(x, subs, ss) ==
    IF ss = << >> THEN x
    ELSE StartFetches(StartFetch(x, subs, Head(ss), FALSE, FALSE, FALSE,
                                 NoFetchOwner),
                      subs, Tail(ss))

(* Store.setAgent(agent) *)
SetAgent(x) ==
    LET auth == SelectSeq(ChannelSeq,
                          LAMBDA k : /\ k \in DOMAIN webSockets
                                     /\ AuthenticatesOn(webSockets, k))
        ss   == IF x = NoAgent THEN << >>
                ELSE UnauthorizedSeq(resources, Cur.heap)
        h0   == [Handler EXCEPT !.msgs =
                    IF x = NoAgent THEN << >>
                    ELSE [i \in DOMAIN auth |-> AuthMsg(auth[i], x)]]
        h1   == StartFetches(h0, subscribers, ss)
    IN  /\ Len(fetches) + Len(ss) <= MaxAgentFetches
        /\ agent' = x
        /\ webSockets' = h1.ws
        /\ FinishStore(h1.st.res, h1.st.heap, h1.fs,
                       [NoOut EXCEPT !.calls = h1.st.calls, !.msgs = h1.msgs,
                                     !.events = << AgentChangedEvent(x) >>,
                                     !.cookies = IF x = NoAgent THEN << >>
                                                 ELSE << [server |-> serverUrl,
                                                          agent |-> x] >>],
                       Last("setAgent", x, "", None, None, FALSE))
        /\ UNCHANGED << subscribers, sentBy, closedSub >>
        /\ UNCHANGED << serverUrl, handlers, throwers, net >>

---------------------------------------------------------------------------
(* Callbacks and event handlers *)

(* a callback registered by subscribe is one that throws from now on, or *)
(* stops being one                                                       *)
CallbackThrows(cb, does) ==
    /\ throwers' = IF does THEN throwers \cup {cb} ELSE throwers \ {cb}
    /\ FinishStore(resources, Cur.heap, fetches, NoOut,
                   Last("callback", cb, "", None, None, FALSE))
    /\ UNCHANGED << subscribers, webSockets, sentBy, closedSub >>
    /\ UNCHANGED << agent, serverUrl, handlers, net >>

(* a callback that has just been called changes the resource it was given *)
SubscriberMutates(i) ==
    /\ i \in DOMAIN out.calls
    /\ LET o == out.calls[i].obj
       IN  Finish(resources, [Cur.heap EXCEPT ![o].val = "mutated"], fetches,
                  NoOut,
                  Last("mutate", heap[o].subject, out.calls[i].cb, o, None, FALSE))
    /\ UNCHANGED << subscribers, webSockets, sentBy, closedSub >>

ErrorHandlers == {"h1", "h2"}
Errors == [kind : {"Error", "string"}, msg : {"boom"}]

\* e instanceof Error ? e : new Error(e)
AsError(e) == [kind |-> "Error", msg |-> e.msg]

\* EventManager.register(event, handler): the handlers of an event are a set
Register(hs, h) ==
    IF \E i \in DOMAIN hs : hs[i] = h THEN hs ELSE Append(hs, h)

(* Store.on(StoreEvents.Error, handler) *)
OnError(h) ==
    /\ handlers' = Register(handlers, h)
    /\ FinishStore(resources, Cur.heap, fetches, NoOut,
                   Last("on", h, "", None, None, FALSE))
    /\ UNCHANGED << subscribers, webSockets, sentBy, closedSub >>
    /\ UNCHANGED << agent, serverUrl, throwers, net >>

(* the function Store.on returned for handler h is called *)
OffError(h) ==
    /\ handlers' = SelectSeq(handlers, LAMBDA x : x # h)
    /\ FinishStore(resources, Cur.heap, fetches, NoOut,
                   Last("off", h, "", None, None, FALSE))
    /\ UNCHANGED << subscribers, webSockets, sentBy, closedSub >>
    /\ UNCHANGED << agent, serverUrl, throwers, net >>

\* EventManager.hasSubscriptions(StoreEvents.Error)
HasSubscriptions(hs) == hs # << >>

\* EventManager.emit(StoreEvents.Error, error): the event and the handlers
\* it is delivered to
ErrorEvent(e, hs) == [event |-> "error", obj |-> None, error |-> e, to |-> hs]

\* notifyError's choice between the handlers and its caller
RaisesErrorMutNever(hs) == FALSE
RaisesError(hs) == ~HasSubscriptions(hs)

(* Store.notifyError(e) *)
NotifyError(e) ==
    LET error == AsError(e)
    IN  /\ FinishStore(resources, Cur.heap, fetches,
                       [NoOut EXCEPT !.events =
                          IF RaisesError(handlers) THEN << >>
                          ELSE << ErrorEvent(error, handlers) >>],
                       [Last("notifyError", "", "", None, None,
                             RaisesError(handlers))
                          EXCEPT !.other = error.msg])
        /\ UNCHANGED << subscribers, webSockets, sentBy, closedSub >>
        /\ UNCHANGED outerVars

---------------------------------------------------------------------------
(* The HTTP client: fetchResource and postCommit of client.ts *)

\* the base URLs given as `from`: none, a server, and a text no URL can be
\* built from
Froms == {"undefined", "origin1", "no base"}

\* new URL(`${from}/path`) succeeds
FromIsUrl(from) == from # "no base"

\* what can come of one HTTP request: no response at all, a response whose
\* body cannot be read, or a status and a body
Statuses == {"200", "404"}
Bodies == {"json-ad", "garbage"}
Outcomes ==
    { [kind |-> "network-error", status |-> "", body |-> ""] }
    \cup [kind : {"no-body"}, status : {"200"}, body : {""}]
    \cup [kind : {"response"}, status : Statuses, body : Bodies]

\* JSON.parse(body) and parseJsonADResource succeed
Parses(body) == body = "json-ad"

\* fetchResource's test before window.fetch is called: does it get there
SendsRequestMutAlways(s, from, hasFetch) == TRUE
SendsRequest(s, from, hasFetch) ==
    /\ SubjectIsUrl(s)
    /\ from # "undefined" => FromIsUrl(from)
    /\ hasFetch

\* the URL fetchResource asks for
RequestUrl(s, from) ==
    IF from = "undefined" THEN << s >> ELSE << from, "/path?path=", s >>

\* new Error(`${response.status} error: ${body}`)
StatusErrorMutNoBody(status, body) == << status, " error: " >>
StatusError(status, body) == << status, " error: ", body >>

\* the message of the error fetchResource sets on the resource; << >> when
\* it sets none
FetchError(s, from, hasFetch, outcome) ==
    IF ~SubjectIsUrl(s) THEN << "Not a valid URL: ", s >>
    ELSE IF from # "undefined" /\ ~FromIsUrl(from) THEN << "Invalid URL" >>
    ELSE IF ~hasFetch THEN << "No window object available" >>
    ELSE IF outcome.kind # "response" THEN << "Failed to fetch" >>
    ELSE IF outcome.status = "200"
         THEN IF Parses(outcome.body) THEN << >>
              ELSE << "Could not parse JSON from fetching ", s >>
         ELSE StatusError(outcome.status, outcome.body)

(* fetchResource(subject, store, from), from its call to its return *)
ClientFetchResource(s, from, withStore, hasFetch, outcome) ==
    LET sends == SendsRequest(s, from, hasFetch)
        msg   == FetchError(s, from, hasFetch, outcome)
        o     == Fresh(Cur.heap)
        r     == [NewResource(s) EXCEPT
                    !.error = msg # << >>,
                    !.val = IF msg = << >> THEN outcome.body ELSE "",
                    !.loading = FALSE]
        st0   == [Cur EXCEPT !.heap = Alloc(@, r)]
        st1   == IF withStore THEN AddResourceSt(st0, subscribers, o) ELSE st0
    IN  /\ net' = [op |-> "fetchResource",
                   requests |-> IF sends
                                THEN << [method |-> "GET",
                                         url |-> RequestUrl(s, from)] >>
                                ELSE << >>,
                   rejected |-> FALSE,
                   result |-> msg,
                   outcome |-> outcome,
                   store |-> withStore]
        /\ FinishStore(st1.res, st1.heap, fetches,
                       [NoOut EXCEPT !.calls = st1.calls],
                       Last("fetchResource", s, from, o, o, FALSE))
        /\ UNCHANGED << subscribers, webSockets, sentBy, closedSub >>
        /\ UNCHANGED << agent, serverUrl, handlers, throwers >>

\* postCommit's test of the response: response.status !== 200 throws
CommitAcceptedMutAlways(status) == TRUE
CommitAccepted(status) == status = "200"

(* postCommit(commit, endpoint), from its call to its return; also what  *)
(* Store.postCommit does, which hands the call on                        *)
PostCommit(endpoint, outcome) ==
    LET failed == outcome.kind # "response" \/ ~CommitAccepted(outcome.status)
    IN  /\ net' = [op |-> "postCommit",
                   requests |-> << [method |-> "POST", url |-> << endpoint >>] >>,
                   rejected |-> failed,
                   result |-> IF outcome.kind = "network-error"
                              THEN << "Posting Commit to ", endpoint, " failed" >>
                              ELSE IF outcome.kind = "no-body"
                              THEN << "Failed to fetch" >>
                              ELSE << outcome.body >>,
                   outcome |-> outcome,
                   store |-> FALSE]
        /\ FinishStore(resources, Cur.heap, fetches, NoOut,
                       Last("postCommit", endpoint, "", None, None, failed))
        /\ UNCHANGED << subscribers, webSockets, sentBy, closedSub >>
        /\ UNCHANGED << agent, serverUrl, handlers, throwers >>

---------------------------------------------------------------------------
\* the operations of the cache on subject s
CacheOps(s, vals, flags) ==
    \/ \E inc \in BOOLEAN, v \in vals : AddResource(s, inc, v)
    \/ RemoveResource(s)
    \/ \E allowIncomplete, newResource \in BOOLEAN, noWebSocket \in flags :
          GetResourceLoading(s, allowIncomplete, noWebSocket, newResource)
    \/ GetResourceAsync(s)

\* the operations of the subscriber table on subject s
SubscriberOps(s) ==
    \/ \E cb \in Callbacks : Subscribe(s, cb)
    \/ \E cb \in Callbacks : Unsubscribe(s, cb)

Channels ==
    \/ \E o \in DOMAIN webSockets : ChannelOpens(o)
    \/ \E o \in DOMAIN webSockets : ChannelCloses(o)

(* One subject, with its subscribers and the channel of its origin *)
NextOne ==
    \/ CacheOps("a", Vals, BOOLEAN)
    \/ GetResourceLoading(unknownSubject, FALSE, FALSE, FALSE)
    \/ SubscriberOps("a")
    \/ \E fromProxy, setLoading, noWebSocket \in BOOLEAN :
          FetchResourceFromServer("a", fromProxy, setLoading, noWebSocket)
    \/ Channels
    \/ \E i \in DOMAIN fetches, resp \in Responses(Vals, {}) :
          FetchDone(i, resp, "b")

SpecOne == Init /\ [][NextOne]_vars

(* Two subjects and the operations that move a resource from one to the   *)
(* other; nobody subscribes and the channel does not open, so every fetch *)
(* goes over HTTP                                                         *)
NextTwo ==
    \/ \E s \in Subjects : CacheOps(s, {"p"}, {FALSE})
    \/ \E old, new \in Subjects : RenameSubject(old, new)
    \/ \E i \in DOMAIN fetches, t \in Subjects,
          resp \in Responses({"p"}, {"complete", "incomplete"}) :
          FetchDone(i, resp, t)

SpecTwo == Init /\ [][NextTwo]_vars

(* The server URL and the channel table: one subject, fetched and       *)
(* subscribed to, on a server whose URL is set in several spellings       *)
NextServer ==
    \/ \E u \in ServerUrls \ {"origin2"} : SetServerUrl(u)
    \/ \E u \in ServerUrls \ {"origin2", "no url"} : OpenWebSocket(u)
    \/ GetResourceLoading("a", FALSE, FALSE, FALSE)
    \/ \E fromProxy \in BOOLEAN : FetchResourceFromServer("a", fromProxy, FALSE, FALSE)
    \/ Subscribe("a", "cb1")
    \/ Channels
    \/ \E i \in DOMAIN fetches, resp \in Responses({"p"}, {}) : FetchDone(i, resp, "b")

SpecServer == Init /\ [][NextServer]_vars

(* The agent: two subjects that the server may refuse, the channel of    *)
(* their origin and the channel of the server the store is set to        *)
NextAgent ==
    \/ SetServerUrl("origin2")
    \/ \E x \in {"agentX", NoAgent} : SetAgent(x)
    \/ \E s \in Subjects : GetResourceLoading(s, TRUE, FALSE, FALSE)
    \/ \E o \in DOMAIN webSockets : ChannelOpens(o)
    \/ \E i \in DOMAIN fetches, t \in Subjects,
          resp \in {Unauthorized} \cup Responses({"p"}, {}) : FetchDone(i, resp, t)

SpecAgent == Init /\ [][NextAgent]_vars

(* The callbacks of one subject, some of which throw or change what they *)
(* are given, and the handlers of the Error event                        *)
NextCallbacks ==
    \/ \E inc \in BOOLEAN : AddResource("a", inc, "p")
    \/ SubscriberOps("a")
    \/ \E cb \in Callbacks, does \in BOOLEAN : CallbackThrows(cb, does)
    \/ \E i \in DOMAIN out.calls : SubscriberMutates(i)
    \/ \E h \in ErrorHandlers : OnError(h)
    \/ \E h \in ErrorHandlers : OffError(h)
    \/ \E e \in Errors : NotifyError(e)

SpecCallbacks == Init /\ [][NextCallbacks]_vars

(* The HTTP client, alone and with a store that has one subject cached   *)
(* and subscribed to                                                     *)
NextClient ==
    \/ \E s \in {"a", malformedSubject}, from \in Froms,
          withStore, hasFetch \in BOOLEAN, outcome \in Outcomes :
          ClientFetchResource(s, from, withStore, hasFetch, outcome)
    \/ \E outcome \in Outcomes : PostCommit("origin1", outcome)
    \/ AddResource("a", FALSE, "p")
    \/ Subscribe("a", "cb1")

SpecClient == Init /\ [][NextClient]_vars

(* Two subjects with callbacks, and fetches whose answer embeds a        *)
(* complete resource of the other subject                                *)
NextBatch ==
    \/ \E s \in Subjects, cb \in Callbacks : Subscribe(s, cb)
    \/ \E s \in Subjects : GetResourceLoading(s, TRUE, FALSE, FALSE)
    \/ \E s \in Subjects : RemoveResource(s)
    \/ \E i \in DOMAIN fetches, t \in Subjects,
          resp \in Responses({"p"}, {"complete"}) : FetchDone(i, resp, t)

SpecBatch == Init /\ [][NextBatch]_vars

(* Subscribing in every state of the channel, to a subject, to texts that *)
(* are no subject, and with a socket whose send throws                    *)
SubscribeSubjects == {"a", malformedSubject, unknownSubject, undefinedSubject}

NextSubscribe ==
    \/ \E s \in SubscribeSubjects, cb \in Callbacks, sendThrows \in BOOLEAN :
          SubscribeSending(s, cb, sendThrows)
    \/ \E s \in SubscribeSubjects \ {undefinedSubject}, cb \in Callbacks :
          Unsubscribe(s, cb)
    \/ Channels

SpecSubscribe == Init /\ [][NextSubscribe]_vars

(* Two subjects of one origin, subscribed to and unsubscribed from while  *)
(* the channel of the origin connects, opens, closes and connects again   *)
NextChannel ==
    \/ \E s \in Subjects, cb \in Callbacks : Subscribe(s, cb)
    \/ \E s \in Subjects, cb \in Callbacks : Unsubscribe(s, cb)
    \/ Channels
    \/ \E o \in DOMAIN webSockets : ChannelReconnects(o)

SpecChannel == Init /\ [][NextChannel]_vars

(* getResourceLoading alone: the only calls are get calls, for two       *)
(* subjects, and the fetches they start are answered, some answers with  *)
(* an incomplete resource of the other subject embedded                  *)
NextGets ==
    \/ \E s \in Subjects, allowIncomplete, newResource \in BOOLEAN :
          GetResourceLoadingWithin(MaxGetFetches, s, allowIncomplete, FALSE,
                                   newResource)
    \/ \E i \in DOMAIN fetches, t \in Subjects,
          resp \in Responses({"p"}, {"incomplete"}) : FetchDone(i, resp, t)

SpecGets == Init /\ [][NextGets]_vars

(* One subject that is fetched again while it is being fetched, and      *)
(* added to and removed from the cache meanwhile; the channel does not   *)
(* open, so every fetch goes over HTTP                                   *)
NextRefetch ==
    \/ \E allowIncomplete \in BOOLEAN :
          GetResourceLoadingWithin(MaxGetFetches, "a", allowIncomplete, FALSE,
                                   FALSE)
    \/ \E inc \in BOOLEAN : AddResource("a", inc, "r")
    \/ RemoveResource("a")
    \/ \E i \in DOMAIN fetches, resp \in Responses(Vals, {}) :
          FetchDone(i, resp, "b")

SpecRefetch == Init /\ [][NextRefetch]_vars

(* Two subjects that are read, removed and fetched over HTTP, every      *)
(* request being answered in the end: the oldest fetch in flight does    *)
(* not wait forever.  The step that answers it is the FetchDone step     *)
(* that takes the first fetch from those in flight                       *)
OldestFetchAnswered == fetches # << >> /\ fetches' = Tail(fetches)

NextLive ==
    \/ \E s \in Subjects, allowIncomplete \in BOOLEAN :
          GetResourceLoadingWithin(MaxGetFetches, s, allowIncomplete, FALSE,
                                   FALSE)
    \/ \E s \in Subjects : RemoveResource(s)
    \/ \E i \in DOMAIN fetches, t \in Subjects,
          resp \in Responses({"p"}, {"incomplete"}) : FetchDone(i, resp, t)

SpecLive == Init /\ [][NextLive]_vars /\ WF_fetches(OldestFetchAnswered)

---------------------------------------------------------------------------
(* Claims about one subject *)

\* the cache holds a resource for s that is not loading
CachedNotLoading(s) == s \in DOMAIN resources /\ ~heap[resources[s]].loading

\* the callbacks a step has called, in order
CalledBack(o) == [i \in DOMAIN o.calls |-> o.calls[i].cb]

CallbacksOf(subs, s) == IF s \in DOMAIN subs THEN subs[s] ELSE << >>

\* C1: when the cache holds a resource for s that is not loading,
\* addResource(R) with R.subject = s and R incomplete leaves the entry for s
\* as it was - the same object, no new one, with the same content - and
\* calls no callback
C1_IncompleteKeepsCached ==
    [][ ( /\ last'.op = "addResource"
          /\ heap'[last'.obj].incomplete
          /\ CachedNotLoading(last'.subject) )
        => ( /\ last'.subject \in DOMAIN resources'
             /\ resources'[last'.subject] # last'.obj
             /\ ~heap'[resources'[last'.subject]].fresh
             /\ Content(heap'[resources'[last'.subject]])
                  = Content(heap[resources[last'.subject]])
             /\ out'.calls = << >> ) ]_vars

\* an incomplete resource was added for a subject with a complete resource
\* cached and a callback registered, and the cache kept the complete one
C1_Witness ==
    /\ last.op = "addResource"
    /\ heap[last.obj].incomplete
    /\ last.subject \in DOMAIN resources
    /\ resources[last.subject] # last.obj
    /\ ~heap[resources[last.subject]].loading
    /\ ~heap[resources[last.subject]].incomplete
    /\ CallbacksOf(subscribers, last.subject) # << >>
    /\ out.calls = << >>

\* C2: addResource(R) with R not incomplete makes R the cache entry of its
\* subject whatever was cached, and calls every callback registered for the
\* subject, once each, in the order they were registered
C2_CompleteAlwaysStored ==
    [][ ( /\ last'.op = "addResource"
          /\ ~heap'[last'.obj].incomplete )
        => ( /\ last'.subject \in DOMAIN resources'
             /\ resources'[last'.subject] = last'.obj
             /\ heap'[last'.obj].subject = last'.subject
             /\ CalledBack(out') = CallbacksOf(subscribers, last'.subject) )
      ]_vars

\* a complete resource was added for a subject that had a resource cached,
\* it is the cache entry now, and two callbacks were called
C2_Witness ==
    /\ last.op = "addResource"
    /\ ~heap[last.obj].incomplete
    /\ resources[last.subject] = last.obj
    /\ Len(out.calls) = 2
    /\ last.n = 1

\* C4: the resource getResourceAsync resolves with is never loading
C4_AsyncNeverLoading ==
    last.op = "getResourceAsync"
        => last.ret # None /\ ~heap[last.ret].loading

\* C7: while the channel is open, the subscribe calls for a subject send
\* one SUBSCRIBE between them however many callbacks they register, and
\* unsubscribing a callback removes no other callback
C7_OneSubscribePerSubject ==
    /\ [](\A s \in DOMAIN subscribers : s \notin closedSub => sentBy[s] = 1)
    /\ [][ last'.op = "unsubscribe"
           => \A i \in DOMAIN CallbacksOf(subscribers, last'.subject) :
                 LET c == subscribers[last'.subject][i] IN
                 c # last'.other
                   => \E j \in DOMAIN subscribers'[last'.subject] :
                         subscribers'[last'.subject][j] = c ]_vars

\* two different callbacks were subscribed with the channel open, one
\* SUBSCRIBE was sent, and one of the two has been unsubscribed
C7_Witness ==
    /\ last.op = "unsubscribe"
    /\ last.n = 1
    /\ Len(subscribers[last.subject]) = 1
    /\ subscribers[last.subject][1] # last.other
    /\ last.subject \notin closedSub
    /\ sentBy[last.subject] = 1

SentSubscribe(o, s) ==
    \E i \in DOMAIN o.msgs : o.msgs[i] = [type |-> "SUBSCRIBE", subject |-> s]

\* C8 as claimed: with the channel open, a subscribe call sends SUBSCRIBE
\* exactly when the number of registered callbacks goes from 0 to 1
C8_Original ==
    [][ ( /\ last'.op = "subscribe"
          /\ ChannelOpenFor(webSockets, last'.subject) )
        => ( SentSubscribe(out', last'.subject)
               <=> CallbacksOf(subscribers, last'.subject) = << >> ) ]_vars

\* C8 amended: with the channel open, a subscribe call sends SUBSCRIBE
\* exactly when the subject has no callback array yet, that is on the first
\* subscribe call for the subject; an array left empty by unsubscribe counts
\* as an array
C8_SubscribeOnFirstCall ==
    [][ ( /\ last'.op = "subscribe"
          /\ ChannelOpenFor(webSockets, last'.subject) )
        => ( SentSubscribe(out', last'.subject)
               <=> last'.subject \notin DOMAIN subscribers ) ]_vars

\* a callback subscribes, the channel being open, to a subject whose
\* callbacks were all unsubscribed, and no SUBSCRIBE is sent
C8_Witness ==
    /\ last.op = "subscribe"
    /\ ChannelOpenFor(webSockets, last.subject)
    /\ Len(subscribers[last.subject]) = 1
    /\ sentBy[last.subject] = 1
    /\ out.msgs = << >>
    /\ last.subject \notin closedSub

RemovedEvent(obj) == [event |-> "resource-removed", obj |-> obj]

\* C9 as claimed: removeResource of a cached subject deletes the entry and
\* calls the callbacks registered for the subject with the removed resource
C9_Original ==
    [][ ( /\ last'.op = "removeResource"
          /\ last'.subject \in DOMAIN resources )
        => ( /\ last'.subject \notin DOMAIN resources'
             /\ CalledBack(out') = CallbacksOf(subscribers, last'.subject) )
      ]_vars

\* C9 amended: removeResource of a cached subject deletes the entry and
\* emits one resource-removed event that carries the removed resource; it
\* calls none of the callbacks registered through subscribe
C9_RemoveEmitsEvent ==
    [][ ( /\ last'.op = "removeResource"
          /\ last'.subject \in DOMAIN resources )
        => ( /\ last'.subject \notin DOMAIN resources'
             /\ out'.events = << RemovedEvent(last'.obj) >>
             /\ last'.obj # None
             /\ Content(heap'[last'.obj])
                  = Content(heap[resources[last'.subject]])
             /\ out'.calls = << >> ) ]_vars

\* a cached resource with a callback registered has been removed
C9_Witness ==
    /\ last.op = "removeResource"
    /\ last.obj # None
    /\ CallbacksOf(subscribers, last.subject) # << >>
    /\ out.events # << >>

\* C10: removeResource changes neither the subscriber table nor the
\* channels and sends nothing; for a subject that is not cached it emits no
\* event and leaves the cache as it was
C10_RemoveFrame ==
    [][ last'.op = "removeResource"
        => ( /\ subscribers' = subscribers
             /\ webSockets' = webSockets
             /\ out'.msgs = << >>
             /\ last'.subject \notin DOMAIN resources
                  => ( /\ out'.events = << >>
                       /\ resources' = resources
                       /\ \A s \in DOMAIN resources :
                             Content(heap'[resources'[s]])
                               = Content(heap[resources[s]]) ) ) ]_vars

\* removeResource was called for a subject that is not cached, while a
\* callback is registered for it and its channel is open
C10_Witness ==
    /\ last.op = "removeResource"
    /\ last.obj = None
    /\ CallbacksOf(subscribers, last.subject) # << >>
    /\ ChannelOpenFor(webSockets, last.subject)
    /\ out = NoOut

---------------------------------------------------------------------------
(* Claims about two subjects *)

RenameRefused(l) == l.op = "renameSubject" /\ l.raised /\ l.obj # None

\* what the resource that a rename of old to new holds looked like before
\* the step that ends the rename
RenamedBefore(old, new) ==
    { Content(heap[resources[s]]) :
        s \in {s \in {old} : old \in DOMAIN resources /\ new \in DOMAIN resources} }
    \cup { Content(heap[fetches[i].owner.oldObj]) :
             i \in {i \in DOMAIN fetches :
                       /\ fetches[i].owner.kind = "renameSubject"
                       /\ fetches[i].owner.old = old
                       /\ fetches[i].subject = new} }

\* C5 as claimed: a renameSubject(old, new) that fails because new is taken
\* leaves the entry for old as it was, and leaves new without an entry if it
\* had none
C5_Original ==
    [][ RenameRefused(last')
        => ( /\ last'.subject \in DOMAIN resources
                  => ( /\ last'.subject \in DOMAIN resources'
                       /\ Content(heap'[resources'[last'.subject]])
                            = Content(heap[resources[last'.subject]]) )
             /\ last'.other \notin DOMAIN resources
                  => last'.other \notin DOMAIN resources' ) ]_vars

\* C5 amended: a renameSubject(old, new) that fails because new is taken
\* does not change the resource it found under old (its subject is not set),
\* removes nothing and emits no removal; the entry for old stays as it was
\* unless the answer to the availability check embeds a resource for old;
\* and the cache holds a ready resource under new afterwards: the one that
\* made the check fail, added by the check's fetch when new was not cached
C5_RefusedRenameKeepsOld ==
    [][ RenameRefused(last')
        => ( /\ Content(heap'[last'.obj])
                  \in RenamedBefore(last'.subject, last'.other)
             /\ out'.events = << >>
             /\ last'.subject \in DOMAIN resources
                  => ( /\ last'.subject \in DOMAIN resources'
                       /\ \/ heap'[resources'[last'.subject]].fresh
                          \/ Content(heap'[resources'[last'.subject]])
                               = Content(heap[resources[last'.subject]]) )
             /\ last'.other \in DOMAIN resources'
             /\ isReady(heap'[resources'[last'.other]])
             /\ heap'[resources'[last'.other]].subject = last'.other ) ]_vars

\* a rename to another subject was refused after its availability check
\* fetched the new subject: old is cached as before, and new is cached now
C5_Witness ==
    /\ RenameRefused(last)
    /\ last.subject # last.other
    /\ last.subject \in DOMAIN resources
    /\ resources[last.subject] = last.obj
    /\ heap[last.obj].subject = last.subject
    /\ last.other \in DOMAIN resources
    /\ heap[resources[last.other]].fresh

\* C6 as claimed, for two different subjects: when renameSubject(old, new)
\* succeeds the cache has no entry for old, the entry for new is the
\* resource the rename found under old, with subject new, and a removal of
\* that resource has been emitted
C6_Original ==
    ( /\ last.op = "renameSubject"
      /\ ~last.raised
      /\ last.subject # last.other )
    => ( /\ last.subject \notin DOMAIN resources
         /\ last.other \in DOMAIN resources
         /\ resources[last.other] = last.obj
         /\ heap[last.obj].subject = last.other
         /\ out.events = << RemovedEvent(last.obj) >> )

---------------------------------------------------------------------------
(* Claims about the agent and the server URL *)

\* how many times x occurs in the sequence q
Times(q, x) == Cardinality({i \in DOMAIN q : q[i] = x})

\* how many of the fetches q are fetches of subject s
FetchesOf(q, s) == Cardinality({i \in DOMAIN q : q[i].subject = s})

\* C11: setAgent(X) with X an agent makes X the active agent, sends one
\* authenticate message for X on every channel that is open and none on any
\* other channel, starts one fetch for every cached resource that is marked
\* unauthorized and none for any other subject, and emits one AgentChanged
\* event that carries X
C11_SetAgent ==
    [][ ( /\ last'.op = "setAgent"
          /\ last'.subject # NoAgent )
        => LET x == last'.subject
               started == SubSeq(fetches', Len(fetches) + 1, Len(fetches'))
           IN  /\ agent' = x
               /\ \A k \in ServerUrls :
                     Times(out'.msgs, AuthMsg(k, x))
                       = IF k \in DOMAIN webSockets /\ webSockets[k] = OPEN
                         THEN 1 ELSE 0
               /\ \A i \in DOMAIN out'.msgs :
                     out'.msgs[i].type = "AUTHENTICATE" => out'.msgs[i].subject = x
               /\ SubSeq(fetches', 1, Len(fetches)) = fetches
               /\ \A s \in Subjects :
                     FetchesOf(started, s)
                       = IF s \in DOMAIN resources
                            /\ isUnauthorized(heap[resources[s]])
                         THEN 1 ELSE 0
               /\ out'.events = << AgentChangedEvent(x) >> ]_vars

\* an agent was set while one channel was open and another was not, and
\* while one cached resource was marked unauthorized and another was not:
\* the open channel got the authenticate message and the unauthorized
\* resource is being fetched
C11_Witness ==
    /\ last.op = "setAgent"
    /\ last.subject \in Agents
    /\ \E k \in DOMAIN webSockets :
          webSockets[k] = OPEN /\ Times(out.msgs, AuthMsg(k, agent)) = 1
    /\ \E k \in DOMAIN webSockets : webSockets[k] # OPEN
    /\ \E s \in DOMAIN resources :
          isUnauthorized(heap[resources[s]]) /\ FetchesOf(fetches, s) = 1
    /\ \E s \in DOMAIN resources :
          ~isUnauthorized(heap[resources[s]]) /\ FetchesOf(fetches, s) = 0

\* C18 as claimed: no two entries of the channel table are channels of the
\* same origin
C18_OneChannelPerOrigin ==
    \A k1, k2 \in DOMAIN webSockets : UrlOrigin(k1) = UrlOrigin(k2) => k1 = k2

---------------------------------------------------------------------------
(* Claims about callbacks and event handlers *)

\* C12: notifyError(e) delivers the error to the handlers registered for
\* the Error event and does not raise when there is at least one, and
\* raises the error, delivering nothing, when there is none; so the error
\* is raised or delivered to a handler in every case
C12_HandlerOrRaise ==
    [][ last'.op = "notifyError"
        => /\ IF handlers # << >>
              THEN /\ ~last'.raised
                   /\ out'.events
                        = << ErrorEvent([kind |-> "Error", msg |-> last'.other],
                                        handlers) >>
              ELSE /\ last'.raised
                   /\ out'.events = << >>
           /\ \/ last'.raised
              \/ \E i \in DOMAIN out'.events : out'.events[i].to # << >> ]_vars

\* an error was notified with two handlers registered and went to both
C12_Witness ==
    /\ last.op = "notifyError"
    /\ ~last.raised
    /\ Len(handlers) = 2
    /\ Len(out.events) = 1
    /\ out.events[1].to = handlers

\* C13: when addResource stores a resource, every callback registered for
\* its subject is called once, in order, whichever of them throw, and
\* addResource does not raise
C13_ThrowingCallbacks ==
    [][ last'.op = "addResource"
        => /\ ~last'.raised
           /\ ( /\ last'.subject \in DOMAIN resources'
                /\ resources'[last'.subject] = last'.obj )
              => CalledBack(out') = CallbacksOf(subscribers, last'.subject) ]_vars

\* a resource was added for a subject with two callbacks, the first of
\* which threw: both were called
C13_Witness ==
    /\ last.op = "addResource"
    /\ Len(out.calls) = 2
    /\ out.calls[1].threw
    /\ out.calls[1].cb # out.calls[2].cb
    /\ CalledBack(out) = CallbacksOf(subscribers, last.subject)

\* the objects the cache refers to
Cached == {resources[s] : s \in DOMAIN resources}

\* C14: no callback is called with an object that the cache holds, and a
\* callback that changes the object it was given leaves every cached
\* resource as it was
C14_CallbackGetsClone ==
    /\ [](\A i \in DOMAIN out.calls : out.calls[i].obj \notin Cached)
    /\ [][ last'.op = "mutate"
           => \A s \in DOMAIN resources :
                 /\ s \in DOMAIN resources'
                 /\ Content(heap'[resources'[s]]) = Content(heap[resources[s]])
         ]_vars

\* a callback has changed the resource it was given, and the resource
\* cached under that subject has not changed
C14_Witness ==
    /\ last.op = "mutate"
    /\ heap[last.obj].val = "mutated"
    /\ last.subject \in DOMAIN resources
    /\ heap[resources[last.subject]].val = "p"

---------------------------------------------------------------------------
(* Claims about the HTTP client *)

\* the text msg, a sequence of pieces, contains the piece x
Contains(msg, x) == \E i \in DOMAIN msg : msg[i] = x

\* the request got a response, status and body
Responded(n) == n.requests # << >> /\ n.outcome.kind = "response"

BadUrls(l) ==
    \/ ~SubjectIsUrl(l.subject)
    \/ l.other # "undefined" /\ ~FromIsUrl(l.other)

\* C16: fetchResource with a subject that is no URL, or with a base URL
\* from which no URL can be built, makes no request, and the resource it
\* returns carries the error
C16_NoRequestForBadUrl ==
    [][ ( last'.op = "fetchResource" /\ BadUrls(last') )
        => ( /\ net'.requests = << >>
             /\ ~net'.rejected
             /\ net'.result # << >>
             /\ heap'[last'.ret].error ) ]_vars

\* a fetch of a good subject through a base that is no URL made no request
C16_Witness ==
    /\ last.op = "fetchResource"
    /\ SubjectIsUrl(last.subject)
    /\ last.other = "no base"
    /\ net.requests = << >>
    /\ heap[last.ret].error

\* C17: postCommit makes one POST request; it succeeds, returning the
\* body, exactly when a response with status 200 came; for a response with
\* another status it fails with the body as the message; when no response
\* came, or its body could not be read, it fails with an error; and it
\* changes neither the cache nor the subscriber table
C17_PostCommitOnce ==
    [][ last'.op = "postCommit"
        => LET o == net'.outcome IN
           /\ Len(net'.requests) = 1
           /\ net'.requests[1].method = "POST"
           /\ ~net'.rejected <=> ( o.kind = "response" /\ o.status = "200" )
           /\ last'.raised = net'.rejected
           /\ ~net'.rejected => net'.result = << o.body >>
           /\ ( o.kind = "response" /\ o.status # "200" )
                => net'.result = << o.body >>
           /\ o.kind # "response" => net'.result # << >>
           /\ resources' = resources
           /\ \A s \in DOMAIN resources :
                 Content(heap'[resources'[s]]) = Content(heap[resources[s]])
           /\ subscribers' = subscribers
           /\ out'.calls = << >> ]_vars

\* a commit was posted and refused with status 404 while a resource was
\* cached and a callback registered
C17_Witness ==
    /\ last.op = "postCommit"
    /\ net.rejected
    /\ net.outcome.kind = "response"
    /\ net.outcome.status = "404"
    /\ net.result = << net.outcome.body >>
    /\ resources # << >>
    /\ subscribers # << >>

---------------------------------------------------------------------------
(* Claims about the resources of one response *)

\* the answer to a fetch that embedded a resource has been added
FetchedBatch(l) == l.op = "fetched" /\ l.other # ""

\* C19: when the answer to a fetch yields a resource and a complete
\* embedded resource, both are in the cache afterwards, and the callbacks
\* registered for the two subjects are called once each: those of the
\* first resource, then those of the embedded one
C19_BatchAddsAll ==
    [][ FetchedBatch(last')
        => ( /\ \A s \in {last'.subject, last'.other} :
                   /\ s \in DOMAIN resources'
                   /\ heap'[resources'[s]].fresh
                   /\ heap'[resources'[s]].subject = s
             /\ CalledBack(out')
                  = CallbacksOf(subscribers, last'.subject)
                    \o CallbacksOf(subscribers, last'.other) ) ]_vars

\* a response with an embedded resource was added while each of the two
\* subjects had a callback of its own
C19_Witness ==
    /\ FetchedBatch(last)
    /\ CallbacksOf(subscribers, last.subject) # << >>
    /\ CallbacksOf(subscribers, last.other) # << >>
    /\ CallbacksOf(subscribers, last.subject) # CallbacksOf(subscribers, last.other)
    /\ Len(out.calls) = Len(CallbacksOf(subscribers, last.subject))
                        + Len(CallbacksOf(subscribers, last.other))
    /\ last.other \in DOMAIN resources

\* C20 as claimed: every callback called for a resource of a response
\* finds every resource of that response in the cache
C20_BatchSeenWhole ==
    FetchedBatch(last)
        => \A i \in DOMAIN out.calls :
              {last.subject, last.other} \subseteq out.calls[i].seen

---------------------------------------------------------------------------
(* Claims about validation *)

\* the text of the URL ends with a slash
EndsWithSlash(u) == UrlText(u)[Len(UrlText(u))] = "/"

\* C21 as claimed: setServerUrl with a URL that ends with a slash raises,
\* leaves the stored server URL as it was and opens no channel
C21_TrailingSlashRejected ==
    [][ ( /\ last'.op = "setServerUrl"
          /\ EndsWithSlash(last'.subject) )
        => ( /\ last'.raised
             /\ serverUrl' = serverUrl
             /\ webSockets' = webSockets ) ]_vars

\* C22: subscribe(subject, cb) with a subject that is not undefined does
\* not raise and leaves cb registered for the subject, at the end of the
\* subject's callbacks - whether there is no channel, a connecting, an open
\* or a closed one, whether the socket's send throws, and whether the
\* subject is a URL at all; subscribe with an undefined subject raises and
\* leaves the subscriber table as it was
C22_SubscribeNeverRaises ==
    [][ last'.op = "subscribe"
        => IF last'.subject = undefinedSubject
           THEN last'.raised /\ subscribers' = subscribers
           ELSE /\ ~last'.raised
                /\ last'.subject \in DOMAIN subscribers'
                /\ subscribers'[last'.subject]
                     = Append(CallbacksOf(subscribers, last'.subject),
                              last'.other) ]_vars

\* a callback was subscribed to a text that is no URL while a channel was
\* closed: the call did not raise, the callback is registered, and no
\* channel was added
C22_Witness ==
    /\ last.op = "subscribe"
    /\ last.subject = malformedSubject
    /\ ~last.raised
    /\ subscribers[malformedSubject] = << last.other >>
    /\ DOMAIN webSockets = {"origin1"}
    /\ webSockets["origin1"] = CLOSED

---------------------------------------------------------------------------
(* Claims about reading and fetching *)

\* the fetches a step has started, those in flight before it staying first
Started(fs, fs1) == SubSeq(fs1, Len(fs) + 1, Len(fs1))

\* C23: getResourceLoading returns an object and does not raise.  For a
\* subject that is not cached it returns a new resource that is loading, is
\* the cache entry of the subject afterwards, and one fetch of the subject
\* has been started, none when newResource is set.  For a cached subject it
\* returns the object that is cached, which stays the cache entry, and with
\* allowIncomplete set no fetch is started and the resource is as it was
C23_GetReturnsResource ==
    [][ last'.op = "getResourceLoading"
        => /\ last'.ret # None
           /\ ~last'.raised
           /\ last'.subject \in Subjects
                => LET s == last'.subject
                       r == heap'[last'.ret]
                   IN  /\ s \in DOMAIN resources' /\ resources'[s] = last'.ret
                       /\ r.subject = s
                       /\ IF s \notin DOMAIN resources
                          THEN /\ r.fresh /\ r.loading
                               /\ Len(fetches') >= Len(fetches)
                               /\ [i \in DOMAIN Started(fetches, fetches') |->
                                     Started(fetches, fetches')[i].subject]
                                    = IF "newResource" \in last'.opts
                                      THEN << >> ELSE << s >>
                          ELSE /\ ~r.fresh
                               /\ "allowIncomplete" \in last'.opts
                                    => /\ fetches' = fetches
                                       /\ Content(r)
                                            = Content(heap[resources[s]]) ]_vars

\* getResourceLoading was called with allowIncomplete for a subject whose
\* cached resource is incomplete and not loading: it returned that
\* resource and no fetch is in flight
C23_Witness ==
    /\ last.op = "getResourceLoading"
    /\ "allowIncomplete" \in last.opts
    /\ last.ret # None
    /\ heap[last.ret].incomplete
    /\ ~heap[last.ret].loading
    /\ resources[last.subject] = last.ret
    /\ fetches = << >>

---------------------------------------------------------------------------
(* Claims about the channel *)

\* C24: a subscribe call made while the channel of the subject's origin is
\* not open leaves the callback in the subscriber table and a channel for
\* the origin in the channel table; and whenever a channel opens, the first
\* time or after it was closed, one SUBSCRIBE is sent on it for every subject
\* of its origin that has a callback registered
C24_SubscribedOnOpen ==
    /\ [][ ( /\ last'.op = "subscribe"
             /\ last'.subject \in Subjects
             /\ ~ChannelOpenFor(webSockets, last'.subject) )
           => ( /\ CallbacksOf(subscribers', last'.subject) # << >>
                /\ OriginOf(last'.subject) \in DOMAIN webSockets' ) ]_vars
    /\ [][ last'.op = "ws-open"
           => \A s \in Subjects :
                 ( /\ OriginOf(s) = last'.subject
                   /\ CallbacksOf(subscribers, s) # << >> )
                 => Times(out'.msgs, [type |-> "SUBSCRIBE", subject |-> s]) = 1
         ]_vars

\* the channel opens after callbacks subscribed to both subjects while it
\* was connecting, so that subscribe sent nothing for either, and a
\* SUBSCRIBE is sent for each of the two
C24_Witness ==
    /\ last.op = "ws-open"
    /\ \A s \in Subjects :
          /\ s \in closedSub
          /\ sentBy[s] = 0
          /\ CallbacksOf(subscribers, s) # << >>
          /\ SentSubscribe(out, s)

\* C25: a call that starts a fetch of subject s starts it over the channel
\* exactly when neither fromProxy nor noWebSocket is set, WebSockets are
\* supported, and the channel table has, when the call is made, a socket
\* for the origin of s that is open; otherwise it starts it over HTTP, at
\* the server's /path endpoint exactly when fromProxy is set.  The call that
\* puts the socket in the table fetches over HTTP
C25_ChannelOrHttp ==
    [][ ( /\ last'.op \in {"fetchResourceFromServer", "getResourceLoading",
                           "await"}
          /\ Len(fetches') = Len(fetches) + 1 )
        => LET f == fetches'[Len(fetches')]
               s == f.subject
           IN  /\ f.via = "ws"
                    <=> /\ "fromProxy" \notin last'.opts
                        /\ "noWebSocket" \notin last'.opts
                        /\ supportsWebSockets
                        /\ OriginOf(s) \in DOMAIN webSockets
                        /\ webSockets[OriginOf(s)] = OPEN
               /\ f.via = "proxy"
                    <=> "fromProxy" \in last'.opts
               /\ f.via \in {"ws", "proxy", "http"}
               /\ OriginOf(s) \notin DOMAIN webSockets => f.via # "ws" ]_vars

\* fetchResourceFromServer was called with no option set while the channel
\* of the subject's origin was open, and the fetch went over the channel
C25_Witness ==
    /\ last.op = "fetchResourceFromServer"
    /\ last.opts = {}
    /\ fetches # << >>
    /\ fetches[Len(fetches)].via = "ws"
    /\ fetches[Len(fetches)].subject = last.subject
    /\ ChannelOpenFor(webSockets, last.subject)
    /\ out.msgs = << [type |-> "GET", subject |-> last.subject] >>

\* C26 as claimed: get calls never leave more than one fetch of a subject
\* in flight
C26_Original ==
    \A s \in Subjects : FetchesOf(fetches, s) <= 1

\* C26 amended: a getResourceLoading call for a subject whose cached
\* resource is loading starts no fetch, and no get call starts more than
\* one.  (Two fetches of a subject are in flight once the loading resource
\* was replaced before its fetch was answered and a get call fetched again)
C26_NoFetchWhileLoading ==
    [][ last'.op = "getResourceLoading"
        => /\ Len(fetches') - Len(fetches) \in {0, 1}
           /\ ( /\ last'.subject \in DOMAIN resources
                /\ heap[resources[last'.subject]].loading )
              => fetches' = fetches ]_vars

\* getResourceLoading was called, with no option set, for a subject whose
\* cached resource is the loading placeholder of an earlier call, the fetch
\* of which is in flight, and it is still the only one
C26_Witness ==
    /\ last.op = "getResourceLoading"
    /\ last.opts = {}
    /\ last.ret # None
    /\ ~heap[last.ret].fresh
    /\ heap[last.ret].loading
    /\ ~heap[last.ret].incomplete
    /\ FetchesOf(fetches, last.subject) = 1

\* C27: when a fetch over HTTP is answered, the resource made from the
\* answer becomes the cache entry of the subject, whatever the cache holds
\* by then - nothing, when the entry was removed meanwhile, or the
\* resource of an addResource call, or the answer to another fetch of the
\* subject that was answered earlier
C27_FetchAlwaysApplied ==
    [][ last'.op = "fetched"
        => /\ last'.subject \in DOMAIN resources'
           /\ resources'[last'.subject] = last'.obj
           /\ last'.ret = last'.obj
           /\ heap'[last'.obj].fresh
           /\ heap'[last'.obj].subject = last'.subject
           /\ ~heap'[last'.obj].loading
           /\ Len(fetches') = Len(fetches) - 1 ]_vars

\* a fetch was answered after the subject's entry had been removed, while
\* another fetch of the subject is still in flight: the answer is the
\* cache entry
C27_Witness ==
    /\ last.op = "fetched"
    /\ last.n = 0
    /\ resources[last.subject] = last.obj
    /\ heap[last.obj].val \in Vals
    /\ FetchesOf(fetches, last.subject) = 1

\* the cache holds a loading resource for s and a fetch of s is in flight
LoadingAndFetching(s) ==
    /\ s \in DOMAIN resources
    /\ heap[resources[s]].loading
    /\ FetchesOf(fetches, s) >= 1

\* C28: every request over HTTP being answered in the end, a subject with
\* a loading resource in the cache and a fetch in flight gets to a state
\* where its cache entry is not loading, or where it has no cache entry
C28_LoadingEnds ==
    \A s \in Subjects :
        LoadingAndFetching(s) ~> (s \notin DOMAIN resources \/ CachedNotLoading(s))

\* the fetch of a subject that had a cache entry was answered with an
\* error, and the entry is a resource with the error that is not loading
C28_Witness ==
    /\ last.op = "fetched"
    /\ last.n = 1
    /\ resources[last.subject] = last.obj
    /\ heap[last.obj].error
    /\ ~heap[last.obj].loading
    /\ FetchesOf(fetches, last.subject) = 0

=============================================================================
